---- MODULE Spec2Model ----
(***************************************************************************)
(* ROS3D.MarkerArrayClient (src/src/markers/MarkerArrayClient.js).         *)
(*                                                                         *)
(* State: the client's fields (markers, updatedTime, debounceTimer,        *)
(* lifetime, debounceMs), the children of rootObject, the pending          *)
(* setTimeout callbacks of checkTime, and the wall clock.  One action per  *)
(* callback the JavaScript event loop can run: a batch delivered by the    *)
(* topic, a checkTime timeout, the debounce timeout; Tick lets the clock   *)
(* advance.  Time is counted in units of 100 ms.  Timers are punctual: the *)
(* clock does not pass the due time of a pending timeout.                  *)
(***************************************************************************)
EXTENDS Integers, Sequences, FiniteSets, Bags, TLC

VARIABLES
  lifetime,       \* this.lifetime
  debounceMs,     \* this.debounceMs
  debounceTimer,  \* this.debounceTimer: {} is null, {t} a timeout due at t
  markers,        \* this.markers: key -> handle of the SceneNode
  updatedTime,    \* this.updatedTime: key -> time
  children,       \* this.rootObject.children: sequence of handles
  tfSubs,         \* handles of SceneNodes subscribed to the tfClient
  disposed,       \* handles whose Marker child was disposed
  nextHandle,     \* number of SceneNodes constructed so far
  timers,         \* bag of pending checkTime timeouts [name, due]
  now,            \* new Date().getTime()
  emitted,        \* 'change' events of the last callback: what each observer saw
  last,           \* the last callback: [op, name]
  refKeys,        \* reference key set: replay of the processed messages
  upsertAt,       \* key -> time of its last UPSERT, while that is its last message
  lastUpsert,     \* key -> time of the latest UPSERT applied to it, while it has
                  \* an entity
  acceptedAt      \* {} or {time the last batch passed the debounce gate}

vars == <<lifetime, debounceMs, debounceTimer, markers, updatedTime, children,
          tfSubs, disposed, nextHandle, timers, now, emitted, last, refKeys,
          upsertAt, lastUpsert,
                 acceptedAt>>

---------------------------------------------------------------------------
(* Bounds of the model *)
MaxBatchLen == 2
MaxHandles == 3
MaxTimers == 2
MaxTime == 4

(* The poll interval of checkTime, in units of 100 ms *)
P == 1

Lifetimes == {0, 2}
Debounces == {0, 2}

Namespaces == {"a"}
Ids == {1, 11}
Actions == {0, 1, 2, 3, 99}

(* One element of arrayMessage.markers.  updatable is the answer the       *)
(* Marker of an existing node gives to update(message).                    *)
Messages ==
  {m \in [ns : Namespaces, id : Ids, action : Actions, updatable : BOOLEAN] :
     m.action # 0 => m.updatable}

RECURSIVE SeqsOfLen(_, _)
SeqsOfLen(S, n) ==
  IF n = 0 THEN {<<>>}
  ELSE {Append(s, x) : s \in SeqsOfLen(S, n - 1), x \in S}

(* arrayMessage.markers, by length *)
BatchesOfLen == [n \in 0..MaxBatchLen |-> SeqsOfLen(Messages, n)]

Batches == UNION {BatchesOfLen[n] : n \in 0..MaxBatchLen}

---------------------------------------------------------------------------
(* Objects as maps *)
Put(f, k, v) == [x \in (DOMAIN f) \cup {k} |-> IF x = k THEN v ELSE f[x]]
Del(f, k) == [x \in (DOMAIN f) \ {k} |-> f[x]]
Empty == [x \in {} |-> 0]
Range(f) == {f[x] : x \in DOMAIN f}

(* THREE.Object3D.remove: splice out the first occurrence *)
RECURSIVE Splice(_, _)
Splice(s, h) ==
  IF s = <<>> THEN <<>>
  ELSE IF Head(s) = h THEN Tail(s)
  ELSE <<Head(s)>> \o Splice(Tail(s), h)

(* var key = message.ns + message.id *)
Key(message) == message.ns \o ToString(message.id)

(* The client's mutable state as one record, threaded through a callback *)
Client ==
  [markers |-> markers, updatedTime |-> updatedTime, children |-> children,
   tfSubs |-> tfSubs, disposed |-> disposed, nextHandle |-> nextHandle,
   timers |-> timers, emitted |-> <<>>]

(* What an observer of 'change' can see at the point of emission *)
View(st) == [markers |-> st.markers, children |-> st.children]

emit(st) == [st EXCEPT !.emitted = Append(@, View(st))]

setTimeout(st, name, due) ==
  [st EXCEPT !.timers = @ (+) SetToBag({[name |-> name, due |-> due]})]

(* Mutant: removeMarker without delete(this.markers[key]) *)
removeMarker_keepsKey(st, key) ==
  LET s1 == IF lifetime # 0 /\ key \in DOMAIN st.updatedTime
            THEN [st EXCEPT !.updatedTime = Del(@, key)]
            ELSE st
  IN IF key \notin DOMAIN s1.markers
     THEN s1
     ELSE LET oldNode == s1.markers[key]
          IN [s1 EXCEPT !.tfSubs = @ \ {oldNode},
                        !.children = Splice(@, oldNode),
                        !.disposed = @ \cup {oldNode}]

(* Mutant: removeMarker without this.rootObject.remove(oldNode) *)
removeMarker_staysAttached(st, key) ==
  LET s1 == IF lifetime # 0 /\ key \in DOMAIN st.updatedTime
            THEN [st EXCEPT !.updatedTime = Del(@, key)]
            ELSE st
  IN IF key \notin DOMAIN s1.markers
     THEN s1
     ELSE LET oldNode == s1.markers[key]
          IN [s1 EXCEPT !.tfSubs = @ \ {oldNode},
                        !.disposed = @ \cup {oldNode},
                        !.markers = Del(@, key)]

(* Mutant: removeMarker without oldNode.unsubscribeTf() *)
removeMarker_staysSubscribed(st, key) ==
  LET s1 == IF lifetime # 0 /\ key \in DOMAIN st.updatedTime
            THEN [st EXCEPT !.updatedTime = Del(@, key)]
            ELSE st
  IN IF key \notin DOMAIN s1.markers
     THEN s1
     ELSE LET oldNode == s1.markers[key]
          IN [s1 EXCEPT !.children = Splice(@, oldNode),
                        !.disposed = @ \cup {oldNode},
                        !.markers = Del(@, key)]

removeMarker(st, key) ==
  LET s1 == IF lifetime # 0 /\ key \in DOMAIN st.updatedTime
            THEN [st EXCEPT !.updatedTime = Del(@, key)]
            ELSE st
  IN IF key \notin DOMAIN s1.markers
     THEN s1
     ELSE LET oldNode == s1.markers[key]
          IN [s1 EXCEPT !.tfSubs = @ \ {oldNode},
                        !.children = Splice(@, oldNode),
                        !.disposed = @ \cup {oldNode},
                        !.markers = Del(@, key)]

(* Mutant: checkTime that compares with >= *)
checkTime_atLifetime(st, name, curTime) ==
  IF name \in DOMAIN st.updatedTime /\ curTime - st.updatedTime[name] >= lifetime
  THEN emit(removeMarker(st, name))
  ELSE setTimeout(st, name, curTime + P)

(* curTime - undefined is NaN, and NaN > lifetime is false *)
checkTime(st, name, curTime) ==
  IF name \in DOMAIN st.updatedTime /\ curTime - st.updatedTime[name] > lifetime
  THEN emit(removeMarker(st, name))
  ELSE setTimeout(st, name, curTime + P)

(* this.markers[key].children[0].update(message) *)
update(st, key, message) == message.updatable

(* new ROS3D.SceneNode(...) ; this.rootObject.add(this.markers[key]) *)
addMarker(st, key) ==
  LET node == st.nextHandle
  IN [st EXCEPT !.nextHandle = @ + 1,
                !.markers = Put(@, key, node),
                !.tfSubs = @ \cup {node},
                !.children = Append(@, node)]

(* Mutant: DELETE ALL that resets this.markers without removing the nodes *)
removeAll_resetOnly(st, ks) == [st EXCEPT !.markers = Empty]

RECURSIVE removeAll(_, _)
removeAll(st, ks) ==
  IF ks = {} THEN [st EXCEPT !.markers = Empty]
  ELSE LET m == CHOOSE k \in ks : TRUE
       IN removeAll(removeMarker(st, m), ks \ {m})

(* Mutant: the ADD block runs whether or not the node was updated in place *)
handleMessage_alwaysAdds(st, message, curTime) ==
  LET key == Key(message)
      s1 == IF lifetime # 0
            THEN checkTime([st EXCEPT !.updatedTime = Put(@, key, curTime)], key, curTime)
            ELSE st
  IN CASE message.action = 0 ->
            LET updated == key \in DOMAIN s1.markers /\ update(s1, key, message)
                s2 == IF key \in DOMAIN s1.markers /\ ~updated
                      THEN removeMarker(s1, key)
                      ELSE s1
            IN addMarker(s2, key)
       [] message.action = 1 -> s1
       [] message.action = 2 -> removeMarker(s1, key)
       [] message.action = 3 -> removeAll(s1, DOMAIN s1.markers)
       [] OTHER -> s1

(* Mutant: lastSeen written and a check scheduled whatever the lifetime *)
handleMessage_noLifetimeGuard(st, message, curTime) ==
  LET key == Key(message)
      s1 == checkTime([st EXCEPT !.updatedTime = Put(@, key, curTime)], key, curTime)
  IN CASE message.action = 0 ->
            LET updated == key \in DOMAIN s1.markers /\ update(s1, key, message)
                s2 == IF key \in DOMAIN s1.markers /\ ~updated
                      THEN removeMarker(s1, key)
                      ELSE s1
            IN IF ~updated THEN addMarker(s2, key) ELSE s2
       [] message.action = 1 -> s1
       [] message.action = 2 -> removeMarker(s1, key)
       [] message.action = 3 -> removeAll(s1, DOMAIN s1.markers)
       [] OTHER -> s1

(* The body of the forEach callback of processMessage *)
handleMessage(st, message, curTime) ==
  LET key == Key(message)
      s1 == IF lifetime # 0
            THEN checkTime([st EXCEPT !.updatedTime = Put(@, key, curTime)], key, curTime)
            ELSE st
  IN CASE message.action = 0 ->
            LET updated == key \in DOMAIN s1.markers /\ update(s1, key, message)
                s2 == IF key \in DOMAIN s1.markers /\ ~updated
                      THEN removeMarker(s1, key)
                      ELSE s1
            IN IF ~updated THEN addMarker(s2, key) ELSE s2
       [] message.action = 1 -> s1
       [] message.action = 2 -> removeMarker(s1, key)
       [] message.action = 3 -> removeAll(s1, DOMAIN s1.markers)
       [] OTHER -> s1

RECURSIVE forEach(_, _, _)
forEach(st, batch, curTime) ==
  IF batch = <<>> THEN st
  ELSE forEach(handleMessage(st, Head(batch), curTime), Tail(batch), curTime)

(* Mutant: this.emit('change') inside the forEach callback as well *)
RECURSIVE forEachEmitting(_, _, _)
forEachEmitting(st, batch, curTime) ==
  IF batch = <<>> THEN st
  ELSE forEachEmitting(emit(handleMessage(st, Head(batch), curTime)), Tail(batch), curTime)

processMessage_emitsPerMessage(st, arrayMessage, curTime) ==
  emit(forEachEmitting(st, arrayMessage, curTime))

processMessage(st, arrayMessage, curTime) == emit(forEach(st, arrayMessage, curTime))

---------------------------------------------------------------------------
(* History variables, computed from the messages alone *)
ReplayMessage(ks, m) ==
  CASE m.action = 0 -> ks \cup {Key(m)}
    [] m.action = 2 -> ks \ {Key(m)}
    [] m.action = 3 -> {}
    [] OTHER -> ks

RECURSIVE Replay(_, _)
Replay(ks, batch) ==
  IF batch = <<>> THEN ks ELSE Replay(ReplayMessage(ks, Head(batch)), Tail(batch))

RECURSIVE NoteUpserts(_, _, _)
NoteUpserts(f, batch, t) ==
  IF batch = <<>> THEN f
  ELSE LET m == Head(batch)
       IN NoteUpserts(IF m.action = 0 THEN Put(f, Key(m), t) ELSE Del(f, Key(m)),
                      Tail(batch), t)

NoteLatestMessage(f, m, t) ==
  CASE m.action = 0 -> Put(f, Key(m), t)
    [] m.action = 2 -> Del(f, Key(m))
    [] m.action = 3 -> Empty
    [] OTHER -> f

RECURSIVE NoteLatest(_, _, _)
NoteLatest(f, batch, t) ==
  IF batch = <<>> THEN f
  ELSE NoteLatest(NoteLatestMessage(f, Head(batch), t), Tail(batch), t)

Upserts(batch) == Cardinality({i \in 1..Len(batch) : batch[i].action = 0})

(* The bounds of the model: room for the nodes and timeouts a batch makes *)
Room ==
  IF lifetime # 0 /\ MaxTimers - BagCardinality(timers) < MaxBatchLen
  THEN MaxTimers - BagCardinality(timers)
  ELSE MaxBatchLen

Fits(batch) == nextHandle + Upserts(batch) <= MaxHandles

Install(st) ==
  /\ markers' = st.markers
  /\ updatedTime' = st.updatedTime
  /\ children' = st.children
  /\ tfSubs' = st.tfSubs
  /\ disposed' = st.disposed
  /\ nextHandle' = st.nextHandle
  /\ timers' = st.timers
  /\ emitted' = st.emitted

Applied(batch) ==
  /\ Install(processMessage(Client, batch, now))
  /\ last' = [op |-> "batch", name |-> ""]
  /\ refKeys' = Replay(refKeys, batch)
  /\ upsertAt' = NoteUpserts(upsertAt, batch, now)
  /\ lastUpsert' = NoteLatest(lastUpsert, batch, now)
  /\ acceptedAt' = {now}

---------------------------------------------------------------------------
Init ==
  /\ lifetime \in Lifetimes
  /\ debounceMs \in Debounces
  /\ debounceTimer = {}
  /\ markers = Empty
  /\ updatedTime = Empty
  /\ children = <<>>
  /\ tfSubs = {}
  /\ disposed = {}
  /\ nextHandle = 0
  /\ timers = EmptyBag
  /\ now = 0
  /\ emitted = <<>>
  /\ last = [op |-> "init", name |-> ""]
  /\ refKeys = {}
  /\ upsertAt = Empty
  /\ lastUpsert = Empty
  /\ acceptedAt = {}

(* Mutant: the timeout handle is not kept in this.debounceTimer *)
debounceTimeout_notKept(curTime) == {}

(* setTimeout(() => this.debounceTimer = null, this.debounceMs) *)
debounceTimeout(curTime) == {curTime + debounceMs}

(* boundProcessMessage = processMessage, when debounceMs is 0 *)
Deliver ==
  /\ debounceMs = 0
  /\ \E n \in 0..Room : \E batch \in BatchesOfLen[n] :
       /\ Fits(batch)
       /\ Applied(batch)
  /\ UNCHANGED <<lifetime, debounceMs, debounceTimer, now>>

(* Mutant: debouncedProcessMessage without the early return *)
DeliverDebounced_noReturn ==
  /\ debounceMs > 0
  /\ \E n \in 0..Room : \E batch \in BatchesOfLen[n] :
       /\ Fits(batch)
       /\ Applied(batch)
       /\ debounceTimer' = debounceTimeout(now)
  /\ UNCHANGED <<lifetime, debounceMs, now>>

(* boundProcessMessage = debouncedProcessMessage, when debounceMs > 0 *)
DeliverDebounced ==
  /\ debounceMs > 0
  /\ IF debounceTimer # {}
     THEN /\ Batches # {}
          /\ last' = [op |-> "drop", name |-> ""]
          /\ emitted' = <<>>
          /\ UNCHANGED <<debounceTimer, markers, updatedTime, children, tfSubs,
                         disposed, nextHandle, timers, refKeys, upsertAt, lastUpsert,
                 acceptedAt>>
     ELSE \E n \in 0..Room : \E batch \in BatchesOfLen[n] :
            /\ Fits(batch)
            /\ Applied(batch)
            /\ debounceTimer' = debounceTimeout(now)
  /\ UNCHANGED <<lifetime, debounceMs, now>>

(* () => this.debounceTimer = null *)
DebounceTimeout ==
  /\ \E due \in debounceTimer : due <= now
  /\ debounceTimer' = {}
  /\ last' = [op |-> "debounceTimeout", name |-> ""]
  /\ emitted' = <<>>
  /\ UNCHANGED <<lifetime, debounceMs, markers, updatedTime, children, tfSubs,
                 disposed, nextHandle, timers, now, refKeys, upsertAt, lastUpsert,
                 acceptedAt>>

(* function() {that.checkTime(name);} *)
CheckTimeout ==
  /\ \E tm \in BagToSet(timers) :
       /\ tm.due <= now
       /\ Install(checkTime([Client EXCEPT !.timers = @ (-) SetToBag({tm})], tm.name, now))
       /\ last' = [op |-> "check", name |-> tm.name]
       /\ lastUpsert' = IF tm.name \in DOMAIN markers /\ tm.name \notin DOMAIN markers'
                        THEN Del(lastUpsert, tm.name)
                        ELSE lastUpsert
  /\ UNCHANGED <<lifetime, debounceMs, debounceTimer, now, refKeys, upsertAt, acceptedAt>>

(* The clock is read, and timeouts are set, only when lifetime or debounceMs is set *)
Tick ==
  /\ lifetime # 0 \/ debounceMs # 0
  /\ now < MaxTime
  /\ \A tm \in BagToSet(timers) : tm.due > now
  /\ \A due \in debounceTimer : due > now
  /\ now' = now + 1
  /\ last' = [op |-> "tick", name |-> ""]
  /\ emitted' = <<>>
  /\ UNCHANGED <<lifetime, debounceMs, debounceTimer, markers, updatedTime, children,
                 tfSubs, disposed, nextHandle, timers, refKeys, upsertAt, lastUpsert,
                 acceptedAt>>

Next == Deliver \/ DeliverDebounced \/ DebounceTimeout \/ CheckTimeout \/ Tick

Spec == Init /\ [][Next]_vars

---------------------------------------------------------------------------
(* Callbacks in which child.dispose() throws.  The exception leaves        *)
(* removeMarker after rootObject.remove and before delete(markers[key]),   *)
(* and ends the callback: the rest of the batch, emit('change') and the    *)
(* setTimeout of debouncedProcessMessage are not reached.  A result is     *)
(* [st, thrown]: the client and the keys whose removal threw.              *)

(* child.dispose() of the Marker of a node: it may throw *)
dispose(st, node, throws) ==
  IF throws THEN st ELSE [st EXCEPT !.disposed = @ \cup {node}]

removeMarkerThrows(st, key) ==
  LET s1 == IF lifetime # 0 /\ key \in DOMAIN st.updatedTime
            THEN [st EXCEPT !.updatedTime = Del(@, key)]
            ELSE st
  IN IF key \notin DOMAIN s1.markers
     THEN [st |-> s1, thrown |-> {}]
     ELSE LET oldNode == s1.markers[key]
          IN [st |-> dispose([s1 EXCEPT !.tfSubs = @ \ {oldNode},
                                        !.children = Splice(@, oldNode)],
                             oldNode, TRUE),
              thrown |-> {key}]

(* for (var m in this.markers) visits the keys in the order they were      *)
(* inserted, which is the order in which their nodes were constructed      *)
FirstKey(st) ==
  CHOOSE k \in DOMAIN st.markers :
    \A j \in DOMAIN st.markers : st.markers[k] <= st.markers[j]

handleMessageThrows(st, message, curTime) ==
  LET key == Key(message)
      s1 == IF lifetime # 0
            THEN checkTime([st EXCEPT !.updatedTime = Put(@, key, curTime)], key, curTime)
            ELSE st
  IN CASE message.action = 0 ->
            IF key \in DOMAIN s1.markers /\ ~update(s1, key, message)
            THEN removeMarkerThrows(s1, key)
            ELSE [st |-> handleMessage(st, message, curTime), thrown |-> {}]
       [] message.action = 2 -> removeMarkerThrows(s1, key)
       [] message.action = 3 ->
            IF DOMAIN s1.markers = {}
            THEN [st |-> handleMessage(st, message, curTime), thrown |-> {}]
            ELSE removeMarkerThrows(s1, FirstKey(s1))
       [] OTHER -> [st |-> s1, thrown |-> {}]

RECURSIVE forEachThrows(_, _, _)
forEachThrows(r, batch, curTime) ==
  IF batch = <<>> \/ r.thrown # {} THEN r
  ELSE forEachThrows(handleMessageThrows(r.st, Head(batch), curTime), Tail(batch), curTime)

(* A batch during which a disposal throws, through either bound handler.   *)
(* The history variables follow the callbacks that return.                 *)
DeliverThrows ==
  /\ debounceTimer = {}
  /\ \E n \in 0..Room : \E batch \in BatchesOfLen[n] :
       LET r == forEachThrows([st |-> Client, thrown |-> {}], batch, now)
       IN /\ Fits(batch)
          /\ r.thrown # {}
          /\ Install(r.st)
          /\ last' = [op |-> "throw", name |-> CHOOSE k \in r.thrown : TRUE]
  /\ UNCHANGED <<lifetime, debounceMs, debounceTimer, now, refKeys, upsertAt, lastUpsert,
                 acceptedAt>>

(* A checkTime timeout whose eviction throws in dispose *)
CheckTimeoutThrows ==
  /\ \E tm \in BagToSet(timers) :
       /\ tm.due <= now
       /\ tm.name \in DOMAIN updatedTime
       /\ now - updatedTime[tm.name] > lifetime
       /\ tm.name \in DOMAIN markers
       /\ Install(removeMarkerThrows([Client EXCEPT !.timers = @ (-) SetToBag({tm})],
                                     tm.name).st)
       /\ last' = [op |-> "throw", name |-> tm.name]
  /\ UNCHANGED <<lifetime, debounceMs, debounceTimer, now, refKeys, upsertAt, lastUpsert,
                 acceptedAt>>

NextFault == Next \/ DeliverThrows \/ CheckTimeoutThrows

SpecFault == Init /\ [][NextFault]_vars

---------------------------------------------------------------------------
(* Properties *)

(* Number of checkTime timeouts pending for a key *)
Pending(k) ==
  LET due == {tm \in BagToSet(timers) : tm.name = k}
      RECURSIVE Sum(_)
      Sum(S) == IF S = {} THEN 0
                ELSE LET tm == CHOOSE x \in S : TRUE
                     IN CopiesIn(tm, timers) + Sum(S \ {tm})
  IN Sum(due)

(* A step of the topic callback, whichever way it went *)
Delivery == last'.op \in {"batch", "drop"}

(* C1: with lifetime L > 0, an entity whose key got no message after its   *)
(* last UPSERT is removed at the latest L + P after that UPSERT, whether   *)
(* the UPSERT created, updated or replaced the entity.                     *)
C1_EvictedWithinLifetime ==
  lifetime # 0 =>
    \A k \in (DOMAIN markers) \cap (DOMAIN upsertAt) :
      now - upsertAt[k] <= lifetime + P

(* C2: with lifetime 0, the registry's key set is the key set of the       *)
(* replay of all processed messages, in order, from the empty set.         *)
C2_KeysAreReplay == lifetime = 0 => DOMAIN markers = refKeys

C2_Witness ==
  /\ lifetime = 0
  /\ Cardinality(refKeys) = 1
  /\ Cardinality(disposed) = 2
  /\ last.op = "batch"

(* C3: with lifetime > 0, between callbacks every key of the registry has  *)
(* exactly one expiry check pending.                                       *)
C3_OneCheckPerEntity ==
  lifetime # 0 => \A k \in DOMAIN markers : Pending(k) = 1

(* C4: with debounceMs = W > 0 a batch delivered less than W after the     *)
(* last applied batch is not applied, and a batch delivered more than W    *)
(* after it (or the first batch) is applied; with W = 0 every batch is     *)
(* applied, as is every batch delivered while no window is open.  A batch  *)
(* is applied when its 'change' is emitted.                                *)
C4_Debounce ==
  [][Delivery =>
       /\ debounceMs = 0 => emitted' # <<>>
       /\ (debounceMs > 0 /\ \E a \in acceptedAt : now < a + debounceMs)
            => emitted' = <<>> /\ refKeys' = refKeys
       /\ (debounceMs > 0 /\ \A a \in acceptedAt : now > a + debounceMs)
            => emitted' # <<>> /\ acceptedAt' = {now}
       /\ debounceTimer = {} => emitted' # <<>>]_vars

C4_Witness ==
  /\ debounceMs > 0
  /\ last.op = "batch"
  /\ \E k1, k2 \in DOMAIN upsertAt : upsertAt[k2] > upsertAt[k1] + debounceMs

(* C5: a batch delivered while the debounce window is open changes         *)
(* nothing: registry, attachments, lastSeen, pending checks, the closing   *)
(* time of the window, and no 'change' is emitted.                         *)
C5_DroppedBatchNoEffect ==
  [][(Delivery /\ debounceMs > 0 /\ debounceTimer # {}) =>
       /\ UNCHANGED <<markers, children, tfSubs, disposed, updatedTime, timers,
                      debounceTimer>>
       /\ emitted' = <<>>]_vars

C5_Witness ==
  /\ last.op = "drop"
  /\ lifetime # 0
  /\ \E k \in DOMAIN markers : k \in DOMAIN updatedTime /\ updatedTime[k] < now

(* C6: in every state between callbacks and at every 'change' emission,    *)
(* the handles attached to the rendering root are exactly the handles of   *)
(* the registry's entries, each attached once.                             *)
Attached(v) ==
  /\ {v.children[i] : i \in 1..Len(v.children)} = Range(v.markers)
  /\ Len(v.children) = Cardinality(DOMAIN v.markers)
  /\ Cardinality(Range(v.markers)) = Cardinality(DOMAIN v.markers)

C6_AttachedIsRegistry ==
  /\ Attached(View(Client))
  /\ \A i \in 1..Len(emitted) : Attached(emitted[i])

C6_Witness ==
  /\ last.op = "check"
  /\ emitted # <<>>
  /\ disposed # {}
  /\ markers # Empty

(* C7: a message with action 1, or with an action outside 0..3, changes    *)
(* no state for any lifetime: registry, attachments, lastSeen and pending  *)
(* checks are the same after it as before.                                 *)
C7_NoOpActions ==
  \A m \in Messages :
    m.action \notin {0, 2, 3} =>
      LET s == handleMessage(Client, m, now)
      IN /\ s.markers = markers
         /\ s.children = children
         /\ s.updatedTime = updatedTime
         /\ s.timers = timers

(* C8: an expiry check emits exactly one 'change' when it evicts an entity *)
(* and none otherwise; a check for a key with no entity emits nothing.     *)
C8_SignalIffEviction ==
  [][last'.op = "check" =>
       LET evicted == last'.name \in DOMAIN markers /\ last'.name \notin DOMAIN markers'
       IN Len(emitted') = (IF evicted THEN 1 ELSE 0)]_vars

(* C9: a DELETE or DELETE_ALL message writes no lastSeen entry: every      *)
(* lastSeen entry after the message was there, with that value, before.    *)
C9_DeleteWritesNoLastSeen ==
  \A m \in Messages :
    m.action \in {2, 3} =>
      LET s == handleMessage(Client, m, now)
      IN \A k \in DOMAIN s.updatedTime :
           k \in DOMAIN updatedTime /\ s.updatedTime[k] = updatedTime[k]

(* C10: right after a DELETE_ALL message, whatever the registry held and   *)
(* whatever key the message carries, the registry has no key and no handle *)
(* is attached to the rendering root.                                      *)
C10_DeleteAllEmpties ==
  \A m \in Messages :
    m.action = 3 =>
      LET s == handleMessage(Client, m, now)
      IN s.markers = Empty /\ s.children = <<>>

C10_Witness ==
  /\ Cardinality(DOMAIN markers) = 2
  /\ lifetime # 0
  /\ \E m \in Messages :
       /\ m.action = 3
       /\ Key(m) \in DOMAIN markers
       /\ handleMessage(Client, m, now).children = <<>>

(* Number of times a handle is attached to the rendering root *)
Attachments(st, h) == Cardinality({i \in 1..Len(st.children) : st.children[i] = h})

(* C11: every batch the reconciler processes emits exactly one 'change',   *)
(* after its last message: the one emission of the callback shows the      *)
(* state the batch ends in, and no single message emits.                   *)
C11_OneSignalPerBatch ==
  /\ last.op = "batch" => Len(emitted) = 1 /\ emitted[1] = View(Client)
  /\ \A m \in Messages : handleMessage(Client, m, now).emitted = <<>>

C11_Witness ==
  /\ debounceMs > 0
  /\ now = 0
  /\ last.op = "batch"
  /\ nextHandle = 2
  /\ Len(emitted) = 1

C13_RemovalCompleted ==
  /\ last.op = "throw" => last.name \notin DOMAIN markers
  /\ \A k \in DOMAIN markers : Attachments(Client, markers[k]) = 1

(* C14: an UPSERT for an existing key whose in-place update is rejected    *)
(* destroys and recreates within the one message: the old handle is        *)
(* unbound from its frame, detached and disposed, a new handle distinct    *)
(* from it is attached once and bound, the key maps to the new handle, no  *)
(* other key changes, and no 'change' is emitted in between.               *)
C14_DestroyThenRecreate ==
  \A m \in Messages :
    (m.action = 0 /\ ~m.updatable /\ Key(m) \in DOMAIN markers) =>
      LET s == handleMessage(Client, m, now)
          old == markers[Key(m)]
          new == s.markers[Key(m)]
      IN /\ DOMAIN s.markers = DOMAIN markers
         /\ \A k \in DOMAIN markers \ {Key(m)} : s.markers[k] = markers[k]
         /\ new # old
         /\ new \notin Range(markers) \cup disposed
         /\ old \notin s.tfSubs
         /\ Attachments(s, old) = 0
         /\ old \in s.disposed
         /\ new \in s.tfSubs
         /\ Attachments(s, new) = 1
         /\ new \notin s.disposed
         /\ s.emitted = <<>>

C14_Witness ==
  /\ debounceMs > 0
  /\ now = 0
  /\ last.op = "batch"
  /\ nextHandle = 2
  /\ disposed = {0}
  /\ Range(markers) = {1}
  /\ children = <<1>>

(* Number of checkTime timeouts for a key in a bag of timeouts *)
PendingIn(bag, k) ==
  LET due == {tm \in BagToSet(bag) : tm.name = k}
      RECURSIVE Sum(_)
      Sum(S) == IF S = {} THEN 0
                ELSE LET tm == CHOOSE x \in S : TRUE
                     IN CopiesIn(tm, bag) + Sum(S \ {tm})
  IN Sum(due)

(* C15: once the entity of a key is removed and no message for the key     *)
(* arrives afterwards, its check chain lapses: whenever a DELETE or        *)
(* DELETE_ALL removes the entity of a key, the next check that fires for   *)
(* the key is not scheduled again, so the number of checks pending for the *)
(* key goes down with each firing.                                         *)
C15_ChainLapses ==
  \A m \in Messages :
    m.action \in {2, 3} =>
      LET s == handleMessage(Client, m, now)
      IN \A tm \in BagToSet(s.timers) :
           (/\ tm.name \in DOMAIN markers
            /\ tm.name \notin DOMAIN s.markers
            /\ tm.name \notin DOMAIN s.updatedTime)
             => LET fired == [s EXCEPT !.timers = @ (-) SetToBag({tm})]
                    curTime == IF tm.due > now THEN tm.due ELSE now
                IN PendingIn(checkTime(fired, tm.name, curTime).timers, tm.name)
                     < PendingIn(s.timers, tm.name)

(* C16: an expiry check removes the entity of a key only when, as it       *)
(* fires, more than L has passed since the latest UPSERT applied to the    *)
(* key, whenever the check was scheduled.                                  *)
C16_NoPrematureEviction ==
  [][(/\ last'.op = "check"
      /\ last'.name \in DOMAIN markers
      /\ last'.name \notin DOMAIN markers')
       => /\ last'.name \in DOMAIN lastUpsert
          /\ now - lastUpsert[last'.name] > lifetime]_vars

C16_Witness ==
  /\ last.op = "check"
  /\ Len(emitted) = 1
  /\ last.name \in refKeys
  /\ last.name \notin DOMAIN markers
  /\ now > lifetime + P
  /\ PendingIn(timers, last.name) > 0

(* C17: a DELETE removes the entity of its own key and nothing else: every *)
(* other key keeps its entity, handle, attachment and lastSeen, and a      *)
(* DELETE for a key with no entity leaves registry, attachments, lastSeen  *)
(* and pending checks unchanged.                                           *)
C17_DeleteOnlyOwnKey ==
  \A m \in Messages :
    m.action = 2 =>
      LET key == Key(m)
          s == handleMessage(Client, m, now)
      IN /\ key \notin DOMAIN s.markers
         /\ \A k \in DOMAIN markers \ {key} :
              /\ k \in DOMAIN s.markers
              /\ s.markers[k] = markers[k]
              /\ Attachments(s, markers[k]) = Attachments(Client, markers[k])
              /\ k \in DOMAIN updatedTime =>
                    k \in DOMAIN s.updatedTime /\ s.updatedTime[k] = updatedTime[k]
         /\ key \notin DOMAIN markers =>
              /\ s.markers = markers
              /\ s.children = children
              /\ s.updatedTime = updatedTime
              /\ s.timers = timers

(* The handles a message takes out of the registry *)
Leaving(st, m) == Range(st.markers) \ Range(handleMessage(st, m, now).markers)

(* C18: with lifetime 0 no expiry check is ever scheduled and no lastSeen  *)
(* entry recorded, and an entity leaves the registry only through DELETE,  *)
(* DELETE_ALL or the destroy step of a failed in-place update.             *)
C18_SchedulerInactive ==
  /\ [](lifetime = 0 =>
          /\ timers = EmptyBag
          /\ updatedTime = Empty
          /\ \A m \in Messages :
               /\ handleMessage(Client, m, now).timers = EmptyBag
               /\ handleMessage(Client, m, now).updatedTime = Empty
               /\ Leaving(Client, m) # {} =>
                    \/ m.action = 3
                    \/ /\ m.action = 2
                       /\ Leaving(Client, m) = {markers[Key(m)]}
                    \/ /\ m.action = 0
                       /\ ~m.updatable
                       /\ Leaving(Client, m) = {markers[Key(m)]})
  /\ [][(lifetime = 0 /\ ~(Range(markers) \subseteq Range(markers')))
          => last'.op = "batch"]_vars

C18_Witness ==
  /\ lifetime = 0
  /\ last.op = "batch"
  /\ Cardinality(disposed) >= 2
  /\ markers # Empty
  /\ now > 0

(* C19: with lifetime > 0 every key of the registry has a lastSeen entry   *)
(* in every state between callbacks.                                       *)
C19_RegistryHasLastSeen == lifetime # 0 => DOMAIN markers \subseteq DOMAIN updatedTime

(* Messages of a second namespace whose keys collide with those of the     *)
(* first: "a1" + 1 = "a" + 11                                              *)
Colliding ==
  {m \in [ns : {"a1"}, id : Ids, action : {0, 2}, updatable : BOOLEAN] :
     m.action = 0 \/ m.updatable}

(* C20: a message for one (namespace, id) pair never updates, replaces or  *)
(* removes the entity created for another pair: every entity in the        *)
(* registry was created for namespace "a", so a message for namespace      *)
(* "a1" leaves each of them in place with its handle and attachment.       *)
C20_PairsAddressDistinctEntities ==
  \A m \in Colliding :
    LET s == handleMessage(Client, m, now)
    IN \A k \in DOMAIN markers :
         /\ k \in DOMAIN s.markers
         /\ s.markers[k] = markers[k]
         /\ Attachments(s, markers[k]) = Attachments(Client, markers[k])
         /\ markers[k] \notin s.disposed

====
